---- MODULE Spec2Model ----
(***************************************************************************)
(* A model of r2d2::ringbuffer_c (code/headers/ringbuffer.hpp) and         *)
(* r2d2::queue_c (code/headers/queue.hpp).                                 *)
(*                                                                         *)
(* The two containers are independent; each has its own specification      *)
(* (RSpec for the ring buffer, QSpec for the queue) over its own           *)
(* variables, the other container's variables staying at their initial     *)
(* values.                                                                 *)
(***************************************************************************)
EXTENDS Integers, Sequences, FiniteSets, TLC

\* ------------------------------------------------------------------ bounds
\* Largest template argument MaxSize explored for ringbuffer_c.
RMaxN == 2
\* Constructor arguments / field values range over 1..MaxVal.
MaxVal == 2
\* Number of calls made on one ring buffer object.
RMaxOps == 6
\* Largest template argument MaxSize explored for queue_c.
QMaxN == 3
\* Number of calls made on one queue object.
QMaxOps == 6

VARIABLES
    \* --- ringbuffer_c<T, MaxSize>
    rN,        \* template argument MaxSize
    buffer,    \* T buffer[MaxSize], indexed 0..MaxSize-1
    head,      \* size_t head
    tail,      \* size_t tail
    used,      \* size_t used
    rop,       \* name of the last member function called ("new" after construction)
    rarg,      \* arguments of that call
    rret,      \* value returned by that call
    rsteps,    \* number of calls made so far
    racc,      \* the indices at which that call read or wrote buffer
    \* --- reference behaviour the claims compare the ring buffer with
    rideal,    \* the elements a sliding window of capacity rN holds, oldest first
    rk,        \* number of push()/emplace() calls so far
    rfbuffer,  \* storage of a freshly constructed ring buffer that received
               \* the calls made since the last reset()
    rfret,     \* what the last call returned on that fresh ring buffer
    \* --- queue_c<T, MaxSize, Optimization>
    qN,        \* template argument MaxSize
    qopt,      \* template argument Optimization: "WRITE" or "READ"
    qpod,      \* std::is_pod_v<T>
    qsz,       \* sizeof(T), in bytes
    qbuffer,   \* T buffer[MaxSize] as its qN * qsz bytes, indexed from 0
    index,     \* size_t index
    qop,       \* the last call made, <<name, arguments...>> (<<"new">> after construction)
    qprev,     \* the call made before that one
    qret,      \* value returned by the last copy_and_pop(), NoVal otherwise
    qsteps,    \* number of calls made so far
    qacc,      \* the byte offsets from buffer that the last call read or wrote
    \* --- reference behaviour the claims compare the queue with
    qideal,    \* the values pushed and not yet popped, oldest first
    qk,        \* number of push() calls so far
    qj,        \* number of pop() and copy_and_pop() calls so far
    fbuffer,   \* storage of a freshly constructed queue that received the
               \* calls made since the last clear()
    fret       \* what the last copy_and_pop() returned on that fresh queue

rvars == <<rN, buffer, head, tail, used, rop, rarg, rret, rsteps, racc,
           rideal, rk, rfbuffer, rfret>>

qvars == <<qN, qopt, qpod, qsz, qbuffer, index, qop, qprev, qret, qsteps, qacc,
           qideal, qk, qj, fbuffer, fret>>

vars == <<rvars, qvars>>

\* size_t arithmetic is modulo 2^w. w = 16, the narrowest size_t the
\* language allows, stands for the target's width: what the claims need is
\* that 0 - 1 wraps to the largest value.
SizeMod == 65536

\* ------------------------------------------------------------ element type
\* The element type of the ring buffer: struct x { int a, b; } of the
\* emplace test; x(a, b) initialises the two fields from its arguments.
T(a, b) == [a |-> a, b |-> b]

\* T buffer[MaxSize] = {}: value-initialised elements.
DefaultT == [a |-> 0, b |-> 0]

\* Values a caller passes to push().
PushVals == {T(a, b) : a \in 1..MaxVal, b \in 1..MaxVal}

\* What a read of buffer[MaxSize] (one element past the array) may yield:
\* the read is undefined, any object representation can come back.
GarbageT == PushVals \cup {DefaultT}

NoRet == [a |-> -1, b |-> -1]

\* ------------------------------------------------------------ ringbuffer_c
empty == used = 0

full == used = rN

size == used

max_size == rN

\* operator[](index): the physical slot read, and the element.
Slot(i) == (head + i) % rN

At(i) == buffer[Slot(i)]

\* get_next_location() without its full() test: used grows on every call.
GetNextLocationNoFullTest(h, t, u, n) ==
    LET t0 == IF t >= n THEN 0 ELSE t
    IN  [head |-> h, tail |-> t0 + 1, used |-> u + 1, loc |-> t0]

\* get_next_location(): new head, tail, used and the slot to write.
GetNextLocation(h, t, u, n) ==
    LET t0 == IF t >= n THEN 0 ELSE t
        prev_tail == t0
        t1 == t0 + 1
    IN  IF u = n
        THEN [head |-> (h + 1) % n, tail |-> h, used |-> u, loc |-> prev_tail]
        ELSE [head |-> h, tail |-> t1, used |-> u + 1, loc |-> prev_tail]

\* The sliding window after one more element arrives.
IdealPush(w, val, n) ==
    IF Len(w) = n THEN Append(Tail(w), val) ELSE Append(w, val)

\* The sliding window without its newest element.
IdealPopBack(w) == SubSeq(w, 1, Len(w) - 1)

\* A freshly constructed ringbuffer_c<T, n>.
RingInitOf(n) ==
    /\ rN = n
    /\ buffer = [i \in 0..(rN - 1) |-> DefaultT]
    /\ head = 0
    /\ tail = 0
    /\ used = 0
    /\ rop = "new"
    /\ rarg = <<>>
    /\ rret = NoRet
    /\ rsteps = 0
    /\ racc = {}
    /\ rideal = <<>>
    /\ rk = 0
    /\ rfbuffer = [i \in 0..(rN - 1) |-> DefaultT]
    /\ rfret = NoRet

RingInit == \E n \in 1..RMaxN : RingInitOf(n)

\* T& push(const T& val)
Push(val) ==
    /\ rsteps < RMaxOps
    /\ LET g == GetNextLocation(head, tail, used, rN)
       IN  /\ buffer' = [buffer EXCEPT ![g.loc] = val]
           /\ rfbuffer' = [rfbuffer EXCEPT ![g.loc] = val]
           /\ racc' = {g.loc}
           /\ head' = g.head
           /\ tail' = g.tail
           /\ used' = g.used
    /\ rret' = val
    /\ rfret' = val
    /\ rop' = "push"
    /\ rarg' = <<val>>
    /\ rsteps' = rsteps + 1
    /\ rideal' = IdealPush(rideal, val, rN)
    /\ rk' = rk + 1
    /\ UNCHANGED <<rN, qvars>>

\* T& emplace(Args&&... args), for T = x and args = (a, b)
Emplace(a, b) ==
    /\ rsteps < RMaxOps
    /\ LET g == GetNextLocation(head, tail, used, rN)
       IN  /\ buffer' = [buffer EXCEPT ![g.loc] = T(a, b)]
           /\ rfbuffer' = [rfbuffer EXCEPT ![g.loc] = T(a, b)]
           /\ racc' = {g.loc}
           /\ head' = g.head
           /\ tail' = g.tail
           /\ used' = g.used
    /\ rret' = T(a, b)
    /\ rfret' = T(a, b)
    /\ rop' = "emplace"
    /\ rarg' = <<a, b>>
    /\ rsteps' = rsteps + 1
    /\ rideal' = IdealPush(rideal, T(a, b), rN)
    /\ rk' = rk + 1
    /\ UNCHANGED <<rN, qvars>>

\* copy_and_pop() without its test of used: it pops even when empty.
CopyAndPopNoGuard ==
    /\ rsteps < RMaxOps
    /\ LET pos == IF tail # 0 THEN tail - 1 ELSE rN - 1
       IN  /\ rret' = buffer[pos]
           /\ rfret' = rfbuffer[pos]
           /\ racc' = {pos}
    /\ used' = (used - 1) % SizeMod
    /\ tail' = IF tail = 0 THEN rN - 1 ELSE tail - 1
    /\ rop' = "copy_and_pop"
    /\ rarg' = <<>>
    /\ rsteps' = rsteps + 1
    /\ rideal' = IdealPopBack(rideal)
    /\ UNCHANGED <<rN, buffer, rfbuffer, head, rk, qvars>>

\* T copy_and_pop()
CopyAndPop ==
    /\ rsteps < RMaxOps
    /\ LET pos == IF tail # 0 THEN tail - 1 ELSE rN - 1
       IN  /\ rret' = buffer[pos]
           /\ rfret' = rfbuffer[pos]
           /\ racc' = {pos}
    /\ IF used = 0
       THEN UNCHANGED <<used, tail>>
       ELSE /\ used' = used - 1
            /\ tail' = IF tail = 0 THEN rN - 1 ELSE tail - 1
    /\ rop' = "copy_and_pop"
    /\ rarg' = <<>>
    /\ rsteps' = rsteps + 1
    /\ rideal' = IdealPopBack(rideal)
    /\ UNCHANGED <<rN, buffer, rfbuffer, head, rk, qvars>>

\* T copy_and_pop_front(). With head = MaxSize the read of buffer[head] is
\* one element past the array and yields any value; the fresh buffer makes
\* the same read at the same offset past its own array, where both objects
\* hold the same members head, tail and used, so it yields the same value.
CopyAndPopFront ==
    /\ rsteps < RMaxOps
    /\ IF head < rN
       THEN rret' = buffer[head] /\ rfret' = rfbuffer[head]
       ELSE rret' \in GarbageT /\ rfret' = rret'
    /\ racc' = {head}
    /\ head' = IF (rN - head) % SizeMod > 0 THEN head + 1 ELSE 0
    /\ used' = (used - 1) % SizeMod
    /\ rop' = "copy_and_pop_front"
    /\ rarg' = <<>>
    /\ rsteps' = rsteps + 1
    /\ rideal' = IF rideal = <<>> THEN <<>> ELSE Tail(rideal)
    /\ UNCHANGED <<rN, buffer, rfbuffer, tail, rk, qvars>>

\* T& operator[](index)
Index(i) ==
    /\ rsteps < RMaxOps
    /\ rret' = At(i)
    /\ rfret' = rfbuffer[Slot(i)]
    /\ racc' = {Slot(i)}
    /\ rop' = "operator[]"
    /\ rarg' = <<i>>
    /\ rsteps' = rsteps + 1
    /\ UNCHANGED <<rN, buffer, rfbuffer, head, tail, used, rideal, rk, qvars>>

\* reset() that rewinds head and tail and forgets used.
ResetKeepsUsed ==
    /\ rsteps < RMaxOps
    /\ head' = 0
    /\ tail' = 0
    /\ rop' = "reset"
    /\ rarg' = <<>>
    /\ rret' = NoRet
    /\ rsteps' = rsteps + 1
    /\ racc' = {}
    /\ rideal' = <<>>
    /\ rfbuffer' = [i \in DOMAIN rfbuffer |-> DefaultT]
    /\ rfret' = NoRet
    /\ UNCHANGED <<rN, buffer, used, rk, qvars>>

\* void reset()
Reset ==
    /\ rsteps < RMaxOps
    /\ head' = 0
    /\ tail' = 0
    /\ used' = 0
    /\ rop' = "reset"
    /\ rarg' = <<>>
    /\ rret' = NoRet
    /\ rsteps' = rsteps + 1
    /\ racc' = {}
    /\ rideal' = <<>>
    /\ rfbuffer' = [i \in DOMAIN rfbuffer |-> DefaultT]
    /\ rfret' = NoRet
    /\ UNCHANGED <<rN, buffer, rk, qvars>>

\* ----------------------------------------------------------------- queue_c
\* The instantiations explored, as <<std::is_pod_v<T>, sizeof(T)>>: the
\* struct with a virtual member of the "Queue stores data" test (not a POD,
\* one int of payload), a one-byte POD (uint8_t) and int.
QTypes == {<<FALSE, 4>>, <<TRUE, 1>>, <<TRUE, 4>>}

QPolicies == {"WRITE", "READ"}

\* Values a caller pushes: 257 has two non-zero bytes.
QVals(sz) == IF sz = 1 THEN {1, 2} ELSE {1, 2, 257}

\* What a byte read past the end of the array may hold.
GarbageBytes == {0, 255}

\* The two orders in which memcpy may copy when its ranges overlap (the
\* call is undefined then): ascending addresses, which for a destination
\* below the source gives memmove's result, or descending addresses.
MemcpyOrders == {"up", "down"}

NoVal == -1

\* Byte i of the object representation of the integer v (little-endian).
ByteOf(v, i) == (v \div (256 ^ i)) % 256

\* buffer[e] = v: the sz bytes of element e become those of v.
StoreElem(buf, e, v, sz) ==
    [i \in DOMAIN buf |->
        IF e * sz <= i /\ i < (e + 1) * sz THEN ByteOf(v, i - e * sz) ELSE buf[i]]

RECURSIVE LoadBytes(_, _, _)
\* The integer whose object representation is the n bytes from base.
LoadBytes(buf, base, n) ==
    IF n = 0 THEN 0 ELSE buf[base] + 256 * LoadBytes(buf, base + 1, n - 1)

\* The value of buffer[e].
LoadElem(buf, e, sz) == LoadBytes(buf, e * sz, sz)

\* A byte read at offset i; past the array it yields g.
ReadByte(buf, i, g) == IF i \in DOMAIN buf THEN buf[i] ELSE g

\* memmove(buffer + d, buffer + s, n), offsets and n in bytes.
Memmove(buf, d, s, n, g) ==
    [i \in DOMAIN buf |->
        IF d <= i /\ i < d + n THEN ReadByte(buf, s + i - d, g) ELSE buf[i]]

RECURSIVE CopyDown(_, _, _, _, _)
\* Bytes i, i-1, .., 0 copied one at a time from offset s to offset d.
CopyDown(buf, d, s, i, g) ==
    IF i < 0 THEN buf
    ELSE CopyDown(
            IF d + i \in DOMAIN buf
            THEN [buf EXCEPT ![d + i] = ReadByte(buf, s + i, g)]
            ELSE buf,
            d, s, i - 1, g)

\* memcpy(buffer + d, buffer + s, n), offsets and n in bytes.
Memcpy(buf, d, s, n, g, order) ==
    IF order = "down" THEN CopyDown(buf, d, s, n - 1, g) ELSE Memmove(buf, d, s, n, g)

RECURSIVE ShiftUp(_, _, _)
\* for (size_t i = index; i != 0; i--) buffer[i] = buffer[i - 1];
ShiftUp(buf, i, sz) ==
    IF i = 0 THEN buf
    ELSE ShiftUp(StoreElem(buf, i, LoadElem(buf, i - 1, sz), sz), i - 1, sz)

RECURSIVE ShiftDown(_, _, _, _)
\* for (size_t i = 1; i < index; i++) buffer[i - 1] = buffer[i];
ShiftDown(buf, i, idx, sz) ==
    IF i >= idx THEN buf
    ELSE ShiftDown(StoreElem(buf, i - 1, LoadElem(buf, i, sz), sz), i + 1, idx, sz)

\* push() whose shift-on-insert branch moves the elements and never
\* writes the new item.
PushBufForgetsItem(buf, idx, item) ==
    IF qopt = "WRITE"
    THEN StoreElem(buf, idx, item, qsz)
    ELSE IF qpod THEN Memmove(buf, qsz, 0, idx, 0) ELSE ShiftUp(buf, idx, qsz)

\* push() whose shift-on-insert branch fills the array from its last slot
\* downwards, without moving anything.
PushBufAtTop(buf, idx, item) ==
    IF qopt = "WRITE"
    THEN StoreElem(buf, idx, item, qsz)
    ELSE StoreElem(buf, qN - 1 - idx, item, qsz)

\* The storage after push(item) with index = idx.
PushBuf(buf, idx, item) ==
    IF qopt = "WRITE"
    THEN StoreElem(buf, idx, item, qsz)
    ELSE StoreElem(
            IF qpod THEN Memmove(buf, qsz, 0, idx, 0) ELSE ShiftUp(buf, idx, qsz),
            0, item, qsz)

\* The storage after pop() with index = idx.
PopBuf(buf, idx, g, order) ==
    IF qopt = "WRITE"
    THEN IF qpod THEN Memcpy(buf, 0, qsz, idx, g, order) ELSE ShiftDown(buf, 1, idx, qsz)
    ELSE buf

\* The slots front() and back() read when index = idx.
FrontSlot(idx) == IF qopt = "WRITE" THEN 0 ELSE idx - 1

BackSlot(idx) == IF qopt = "WRITE" THEN idx - 1 ELSE 0

\* front() and back() on storage buf with index = idx.
FrontOf(buf, idx) == LoadElem(buf, FrontSlot(idx), qsz)

BackOf(buf, idx) == LoadElem(buf, BackSlot(idx), qsz)

\* The byte offsets of elements lo..hi of buffer.
ElemBytes(lo, hi) == (lo * qsz)..((hi + 1) * qsz - 1)

\* The byte offsets push() reads or writes when index = idx.
PushBytes(idx) ==
    IF qopt = "WRITE"
    THEN ElemBytes(idx, idx)
    ELSE ElemBytes(0, 0) \cup
         (IF qpod
          THEN (0..(idx - 1)) \cup (qsz..(qsz + idx - 1))
          ELSE IF idx = 0 THEN {} ELSE ElemBytes(0, idx))

\* The byte offsets pop() reads or writes when index = idx.
PopBytes(idx) ==
    IF qopt = "WRITE"
    THEN IF qpod
         THEN (0..(idx - 1)) \cup (qsz..(qsz + idx - 1))
         ELSE IF idx < 2 THEN {} ELSE ElemBytes(0, idx - 1)
    ELSE {}

front == FrontOf(qbuffer, index)

back == BackOf(qbuffer, index)

qsize == index

qempty == qsize = 0

qmax_size == qN

qfull == qsize = qmax_size

\* A freshly constructed queue_c<T, n, opt> with T described by ty.
QueueInitOf(n, opt, ty) ==
    /\ qN = n
    /\ qopt = opt
    /\ qpod = ty[1]
    /\ qsz = ty[2]
    /\ qbuffer = [i \in 0..(n * ty[2] - 1) |-> 0]
    /\ index = 0
    /\ qop = <<"new">>
    /\ qprev = <<"new">>
    /\ qret = NoVal
    /\ qsteps = 0
    /\ qacc = {}
    /\ qideal = <<>>
    /\ qk = 0
    /\ qj = 0
    /\ fbuffer = [i \in 0..(n * ty[2] - 1) |-> 0]
    /\ fret = NoVal

QueueInit ==
    \E n \in 1..QMaxN, opt \in QPolicies, ty \in QTypes : QueueInitOf(n, opt, ty)

\* void push(const T& item)
QPush(item) ==
    /\ qsteps < QMaxOps
    /\ qbuffer' = PushBuf(qbuffer, index, item)
    /\ qacc' = PushBytes(index)
    /\ index' = index + 1
    /\ qop' = <<"push", item>>
    /\ qprev' = qop
    /\ qret' = NoVal
    /\ qsteps' = qsteps + 1
    /\ qideal' = Append(qideal, item)
    /\ qk' = qk + 1
    /\ fbuffer' = PushBuf(fbuffer, index, item)
    /\ fret' = NoVal
    /\ UNCHANGED <<qN, qopt, qpod, qsz, qj, rvars>>

\* pop() that moves the elements and leaves index alone.
QPopKeepsIndex(g, order) ==
    /\ qsteps < QMaxOps
    /\ qbuffer' = PopBuf(qbuffer, index, g, order)
    /\ qacc' = PopBytes(index)
    /\ qop' = <<"pop">>
    /\ qprev' = qop
    /\ qret' = NoVal
    /\ qsteps' = qsteps + 1
    /\ qideal' = IF qideal = <<>> THEN <<>> ELSE Tail(qideal)
    /\ qj' = qj + 1
    /\ fbuffer' = PopBuf(fbuffer, index, g, order)
    /\ fret' = NoVal
    /\ UNCHANGED <<qN, qopt, qpod, qsz, index, qk, rvars>>

\* void pop(); g is what a byte past the array holds, order the way memcpy
\* goes through overlapping ranges.
QPop(g, order) ==
    /\ qsteps < QMaxOps
    /\ qbuffer' = PopBuf(qbuffer, index, g, order)
    /\ qacc' = PopBytes(index)
    /\ index' = (index - 1) % SizeMod
    /\ qop' = <<"pop">>
    /\ qprev' = qop
    /\ qret' = NoVal
    /\ qsteps' = qsteps + 1
    /\ qideal' = IF qideal = <<>> THEN <<>> ELSE Tail(qideal)
    /\ qj' = qj + 1
    /\ fbuffer' = PopBuf(fbuffer, index, g, order)
    /\ fret' = NoVal
    /\ UNCHANGED <<qN, qopt, qpod, qsz, qk, rvars>>

\* T copy_and_pop(): front(), then pop()
QCopyAndPop(g, order) ==
    /\ qsteps < QMaxOps
    /\ qret' = front
    /\ qbuffer' = PopBuf(qbuffer, index, g, order)
    /\ qacc' = ElemBytes(FrontSlot(index), FrontSlot(index)) \cup PopBytes(index)
    /\ index' = (index - 1) % SizeMod
    /\ qop' = <<"copy_and_pop">>
    /\ qprev' = qop
    /\ qsteps' = qsteps + 1
    /\ qideal' = IF qideal = <<>> THEN <<>> ELSE Tail(qideal)
    /\ qj' = qj + 1
    /\ fret' = FrontOf(fbuffer, index)
    /\ fbuffer' = PopBuf(fbuffer, index, g, order)
    /\ UNCHANGED <<qN, qopt, qpod, qsz, qk, rvars>>

\* void clear(): the element count becomes 0, storage is left as it is.
\* The reference queue starts over, freshly constructed.
QClear ==
    /\ qsteps < QMaxOps
    /\ index' = 0
    /\ qop' = <<"clear">>
    /\ qprev' = qop
    /\ qret' = NoVal
    /\ qsteps' = qsteps + 1
    /\ qacc' = {}
    /\ qideal' = <<>>
    /\ fbuffer' = [i \in DOMAIN fbuffer |-> 0]
    /\ fret' = NoVal
    /\ UNCHANGED <<qN, qopt, qpod, qsz, qbuffer, qk, qj, rvars>>

\* ----------------------------------------------------------- specifications
\* The ring buffer on its own; the queue is constructed and left alone.
RInit == RingInit /\ QueueInitOf(1, "WRITE", <<TRUE, 1>>)

\* The queue on its own; the ring buffer is constructed and left alone.
QInit == QueueInit /\ RingInitOf(1)

\* The calls a caller that keeps to the contract makes: push() on a queue
\* that is not full, pop() and copy_and_pop() on one that is not empty.
QNext ==
    \/ \E item \in QVals(qsz) : ~qfull /\ QPush(item)
    \/ \E g \in GarbageBytes, order \in MemcpyOrders : ~qempty /\ QPop(g, order)
    \/ \E g \in GarbageBytes, order \in MemcpyOrders : ~qempty /\ QCopyAndPop(g, order)

QSpec == QInit /\ [][QNext]_vars

\* The same caller, using clear() as well, and copy_and_pop() to remove.
QNextClear ==
    \/ \E item \in QVals(qsz) : ~qfull /\ QPush(item)
    \/ \E g \in GarbageBytes, order \in MemcpyOrders : ~qempty /\ QCopyAndPop(g, order)
    \/ QClear

QSpecClear == QInit /\ [][QNextClear]_vars

\* A caller that also calls pop() on an empty queue; index has not wrapped
\* before any of the calls.
QNextPopEmpty ==
    \/ \E item \in QVals(qsz) : index < qN /\ QPush(item)
    \/ \E g \in GarbageBytes, order \in MemcpyOrders : index <= qN /\ QPop(g, order)
    \/ \E g \in GarbageBytes, order \in MemcpyOrders :
          (0 < index /\ index <= qN) /\ QCopyAndPop(g, order)

QSpecPopEmpty == QInit /\ [][QNextPopEmpty]_vars

\* The calls a caller that keeps to the contract makes: pops only on a
\* non-empty buffer.
RNext ==
    \/ \E val \in PushVals : Push(val)
    \/ \E a \in 1..MaxVal, b \in 1..MaxVal : Emplace(a, b)
    \/ (used > 0 /\ CopyAndPop)
    \/ (used > 0 /\ CopyAndPopFront)
    \/ Reset

RSpec == RInit /\ [][RNext]_vars

\* push() only, on a freshly constructed buffer.
RNextPush == \E val \in PushVals : Push(val)

RSpecPush == RInit /\ [][RNextPush]_vars

\* push() and copy_and_pop_front() on a non-empty buffer.
RNextFront ==
    \/ \E val \in PushVals : Push(val)
    \/ (used > 0 /\ CopyAndPopFront)

RSpecFront == RInit /\ [][RNextFront]_vars

\* push() and both pops, each pop on a non-empty buffer.
RNextPop ==
    \/ \E val \in PushVals : Push(val)
    \/ (used > 0 /\ CopyAndPop)
    \/ (used > 0 /\ CopyAndPopFront)

RSpecPop == RInit /\ [][RNextPop]_vars

\* push(), emplace(), both pops on a non-empty buffer, and operator[](i)
\* with i < size().
RNextCalls ==
    \/ \E val \in PushVals : Push(val)
    \/ \E a \in 1..MaxVal, b \in 1..MaxVal : Emplace(a, b)
    \/ (used > 0 /\ CopyAndPop)
    \/ (used > 0 /\ CopyAndPopFront)
    \/ \E i \in 0..(used - 1) : Index(i)

RSpecCalls == RInit /\ [][RNextCalls]_vars

\* As RNextPop, with copy_and_pop() called on an empty buffer as well.
RNextAnyPop ==
    \/ \E val \in PushVals : Push(val)
    \/ CopyAndPop
    \/ (used > 0 /\ CopyAndPopFront)

RSpecAnyPop == RInit /\ [][RNextAnyPop]_vars

\* ------------------------------------------------------------------ claims
Min(x, y) == IF x <= y THEN x ELSE y

\* The logical contents operator[](0) .. operator[](size()-1) are the window w.
Holds(w) == /\ used = Len(w)
            /\ \A i \in 0..(Len(w) - 1) : At(i) = w[i + 1]

\* C2: after k push() calls on a fresh ring buffer, size() = min(k, N) and
\* operator[](i) is the (k - size() + i + 1)-th pushed value, i.e. the buffer
\* holds the min(k, N) most recently pushed values, oldest first.
C2_SlidingWindow ==
    /\ size = Min(rk, rN)
    /\ Len(rideal) = Min(rk, rN)
    /\ \A i \in 0..(size - 1) : At(i) = rideal[i + 1]

\* C3: on a non-empty ring buffer copy_and_pop() returns the most recently
\* pushed element still in the buffer and removes exactly that element.
C3_PopBackIsNewest ==
    [][(used > 0 /\ rop' = "copy_and_pop") =>
          /\ rret' = rideal[Len(rideal)]
          /\ Holds(rideal)']_vars

\* C4: on a non-empty ring buffer copy_and_pop_front() returns the oldest
\* element still in the buffer, and afterwards operator[](0) is the
\* next-oldest element.
C4_PopFrontIsOldest ==
    [][(used > 0 /\ rop' = "copy_and_pop_front") =>
          /\ rret' = Head(rideal)
          /\ (Len(rideal') > 0 => At(0)' = rideal'[1])]_vars

\* C8: from every reachable state, reset() leaves empty() true and size() 0.
C8_ResetEmpties == rop = "reset" => (empty /\ size = 0)

\* reset() was called on a full buffer that had already evicted elements.
C8_Witness == rop = "reset" /\ rk > rN /\ empty /\ buffer[0] # DefaultT

\* C9: 0 <= size() <= max_size(); push() on a non-full buffer adds one to
\* size(), push() on a full buffer leaves it at max_size(), each pop on a
\* non-empty buffer takes one off; empty() iff size() = 0, full() iff
\* size() = max_size().
C9_SizeAccounting ==
    [][/\ (rop' = "push" /\ ~full) => size' = size + 1
       /\ (rop' = "push" /\ full) => size' = max_size
       /\ (rop' \in {"copy_and_pop", "copy_and_pop_front"} /\ ~empty)
              => size' = size - 1
       /\ 0 <= size' /\ size' <= max_size
       /\ empty' <=> (size' = 0)
       /\ full' <=> (size' = max_size)]_vars

\* push() was called on a full buffer.
C9_Witness == rop = "push" /\ rk > rN /\ full

\* C10: emplace(a, b) moves head, tail and used as push(T(a, b)) does and
\* stores T(a, b) in the same slot; on a non-full buffer the newest logical
\* slot operator[](size() - 1) then holds T(a, b).
C10_EmplaceIsPush ==
    [][rop' = "emplace" =>
          LET val == T(rarg'[1], rarg'[2])
              g == GetNextLocation(head, tail, used, rN)
          IN  /\ head' = g.head /\ tail' = g.tail /\ used' = g.used
              /\ buffer' = [buffer EXCEPT ![g.loc] = val]
              /\ ~full => At(size - 1)' = val]_vars

\* C12: a push() or emplace() on a full ring buffer writes the slot head
\* named before the call, the slot of the oldest element, and advances head
\* to (head + 1) mod N.
C12_OverwriteAtHead ==
    [][(full /\ rop' \in {"push", "emplace"}) =>
          /\ racc' = {head}
          /\ buffer' = [buffer EXCEPT ![head] = rret']
          /\ head' = (head + 1) % rN]_vars

\* C13: 0 <= head < N in every state reached by push() and pops on a
\* non-empty ring buffer; copy_and_pop_front() at head = N-1 wraps head to 0.
C13_HeadInRange == 0 <= head /\ head < rN

\* C14: copy_and_pop() on an empty ring buffer returns the value at slot
\* tail-1 (slot N-1 when tail = 0) and leaves head, tail, used and every
\* storage slot unchanged.
C14_PopEmptyIsFrameFree ==
    [][(used = 0 /\ rop' = "copy_and_pop") =>
          /\ rret' = buffer[IF tail = 0 THEN rN - 1 ELSE tail - 1]
          /\ UNCHANGED <<head, tail, used, buffer>>]_vars

\* push(), copy_and_pop_front(), then copy_and_pop() on the emptied buffer:
\* it returned the stale element.
C14_Witness ==
    /\ rop = "copy_and_pop" /\ rsteps = 3 /\ rk = 1
    /\ used = 0 /\ head = 1 /\ rret # DefaultT

\* C18: every read or write of the ring buffer's backing array uses an
\* index in [0, N).
C18_RingInBounds == racc \subseteq 0..(rN - 1)

\* C20: after reset(), push(), the pops on a non-empty buffer and
\* operator[](i) with i < size() return the values and sizes a freshly
\* constructed ring buffer returns for the same calls.
C20_ResetIsFresh ==
    /\ rop = "reset" => (head = 0 /\ tail = 0 /\ used = 0)
    /\ rret = rfret
    /\ \A i \in 0..(Min(used, rN) - 1) : At(i) = rfbuffer[Slot(i)]

\* A pop after reset() returned a value while storage still holds a slot
\* written before the reset() and not since.
C20_Witness ==
    /\ rop \in {"copy_and_pop", "copy_and_pop_front"}
    /\ buffer # rfbuffer
    /\ rret \in PushVals

\* C1: on a non-empty queue front() is the earliest-pushed element not yet
\* popped and back() the most recently pushed one, for both policies and
\* every element type.
C1_FrontBack ==
    ~qempty => (front = Head(qideal) /\ back = qideal[Len(qideal)])

\* C5: size() = k - j after k push() and j pop() calls; empty() iff
\* size() = 0; full() iff size() = max_size().
C5_QueueSize ==
    /\ qsize = qk - qj
    /\ qempty <=> (qsize = 0)
    /\ qfull <=> (qsize = qmax_size)

\* pops after pushes, on a queue that was full.
C5_Witness == qk = qN /\ qj = 2 /\ qsize = qN - 2 /\ qop = <<"pop">>

\* C6 as stated: on every queue that is not full, push(x) immediately
\* followed by copy_and_pop() returns x.
C6_RoundTripAnyState ==
    (qop = <<"copy_and_pop">> /\ qprev[1] = "push") => qret = qprev[2]

\* C6 amended: on every empty queue (freshly constructed or emptied by
\* pops), push(x) immediately followed by copy_and_pop() returns x.
C6_RoundTripEmpty ==
    (qop = <<"copy_and_pop">> /\ qprev[1] = "push" /\ qempty) => qret = qprev[2]

\* push(x), copy_and_pop() on a queue emptied by earlier pops.
C6_Witness ==
    /\ qop = <<"copy_and_pop">> /\ qprev[1] = "push" /\ qempty
    /\ qj >= 2 /\ qret = qprev[2]

\* C7: right after clear() the queue is empty, and from then on push and
\* the queries front, back, size, empty, full and copy_and_pop give what
\* they give on a freshly constructed queue that received the same calls.
C7_ClearIsFresh ==
    /\ qop = <<"clear">> => qempty
    /\ ~qempty => (front = FrontOf(fbuffer, index) /\ back = BackOf(fbuffer, index))
    /\ qret = fret

\* C11: pop() on an empty queue is a no-op: size() stays 0 and empty() stays
\* true.
C11_PopEmptyNoOp ==
    [][(qempty /\ qop' = <<"pop">>) => (qsize' = 0 /\ qempty')]_vars

\* C15 as stated: under the shift-on-insert policy the count valid elements
\* occupy the slots [N - count, N): those are the slots front() and back()
\* address.
C15_LayoutAtTop ==
    (qopt = "READ" /\ ~qempty) =>
        {FrontSlot(index), BackSlot(index)} \subseteq (qN - index)..(qN - 1)

\* C15 amended: under the shift-on-insert policy the count valid elements
\* are addressed in the slots [0, count): slot 0 holds the newest element
\* and is the slot back() reads, front() reads slot count - 1; for element
\* types that are not POD or are one byte wide, slot i holds the (i+1)-th
\* newest element for every i in [0, count).
C15_LayoutAtBottom ==
    (qopt = "READ" /\ ~qempty) =>
        /\ {FrontSlot(index), BackSlot(index)} \subseteq 0..(index - 1)
        /\ BackSlot(index) = 0 /\ FrontSlot(index) = index - 1
        /\ LoadElem(qbuffer, 0, qsz) = qideal[Len(qideal)]
        /\ (~qpod \/ qsz = 1) =>
               \A i \in 0..(index - 1) :
                   LoadElem(qbuffer, i, qsz) = qideal[Len(qideal) - i]

\* A read-optimised queue holding two elements, fewer than its capacity.
C15_Witness == qopt = "READ" /\ index = 2 /\ qN = 3 /\ qop[1] = "push"

\* C16: under the shift-on-remove policy pop() on a queue of c >= 1
\* elements leaves buffer[i] equal to the old buffer[i + 1] for 0 <= i < c-1.
C16_PopShiftsDown ==
    [][(qopt = "WRITE" /\ ~qempty /\ qop'[1] \in {"pop", "copy_and_pop"}) =>
          \A i \in 0..(index - 2) :
              LoadElem(qbuffer', i, qsz) = LoadElem(qbuffer, i + 1, qsz)]_vars

\* C17: under the shift-on-insert policy push(x) on a queue of c < N
\* elements leaves buffer[0] = x and buffer[i + 1] equal to the old
\* buffer[i] for 0 <= i < c.
C17_PushShiftsUp ==
    [][(qopt = "READ" /\ ~qfull /\ qop'[1] = "push") =>
          /\ LoadElem(qbuffer', 0, qsz) = qop'[2]
          /\ \A i \in 0..(index - 1) :
                LoadElem(qbuffer', i + 1, qsz) = LoadElem(qbuffer, i, qsz)]_vars

\* C19: every byte push() and pop() read or write lies inside the
\* N * sizeof(T) bytes of the backing array.
C19_QueueInBounds == qacc \subseteq 0..(qN * qsz - 1)

====
